---- MODULE Spec2Model ----
(***************************************************************************)
(* A model of e2e_playwright/st_image.py: the module-level script that     *)
(* builds image values and hands them to the rendering API, and the helper *)
(* create_gif it defines.                                                  *)
(*                                                                         *)
(* Python values are records with a field `kind`; every value that an      *)
(* expression constructs gets a fresh object identity `id`, a reference to *)
(* a variable yields the object already bound to it.  Optional arguments   *)
(* are sequences: <<>> is an omitted argument (None), <<x>> a given one.   *)
(* Ellipse coordinates are kept in half pixels, because circle_size is the *)
(* true division size / 2.                                                 *)
(***************************************************************************)
EXTENDS Integers, Sequences, FiniteSets, TLC

VARIABLES
    scriptDir,  \* directory that holds st_image.py (absolute, as parts)
    cwd,        \* the process's current working directory (absolute)
    file,       \* the value of __file__
    pc,         \* index into Script of the next statement; 0: no script runs
    globals,    \* module-level names -> bound value
    nextId,     \* next fresh object identity
    log,        \* the rendering calls emitted so far, in emission order
    colw,       \* width in px of one column of st.columns(4); 0 before it exists
    err,        \* "none", or the exception that ended the run
    gpc,        \* position inside create_gif
    gsize,      \* create_gif's argument size
    gframes,    \* create_gif's argument frames
    gi,         \* create_gif's loop variable i
    heap,       \* the PIL images create_gif has allocated, by reference
    im,         \* create_gif's local im (a reference into heap)
    images,     \* create_gif's local images (a list of references)
    data,       \* create_gif's local data (the BytesIO buffer)
    ret         \* the value create_gif returned

vars == <<scriptDir, cwd, file, pc, globals, nextId, log, colw, err,
          gpc, gsize, gframes, gi, heap, im, images, data, ret>>

scriptVars == <<pc, globals, nextId, log, colw>>
envVars == <<scriptDir, cwd, file>>
gifLocals == <<gsize, gframes, gi, heap, im, images, data>>

---------------------------------------------------------------------------
(* Bounds of the model.                                                    *)

MaxDepth == 2       \* directories are at most this deep
MaxSize == 5        \* create_gif is tried on every size 0..MaxSize
MaxFrames == 33     \* create_gif is tried on every frames 0..MaxFrames

DirNames == {"a", "b"}

RECURSIVE SeqsUpTo(_, _)
SeqsUpTo(S, n) ==
    IF n = 0 THEN {<<>>}
    ELSE LET shorter == SeqsUpTo(S, n - 1)
         IN  shorter \cup {Append(s, x) : s \in shorter, x \in S}

Dirs == SeqsUpTo(DirNames, MaxDepth)

\* Widths a column of the page can have; the fixture's comments assume
\* 100 < c < 800, a narrower or wider page is possible all the same.
ColWidths == {50, 101, 450, 799, 900}

---------------------------------------------------------------------------
(* os.path on POSIX paths.  A path is [abs, parts].                        *)

None == <<>>
Some(x) == <<x>>

Path(abs, parts) == [abs |-> abs, parts |-> parts]

RECURSIVE NormParts(_, _, _)
NormParts(acc, rest, abs) ==
    IF rest = <<>> THEN acc
    ELSE LET h == Head(rest)
             t == Tail(rest)
         IN  IF h = "." THEN NormParts(acc, t, abs)
             ELSE IF h = ".."
                  THEN IF acc /= <<>> /\ acc[Len(acc)] /= ".."
                       THEN NormParts(SubSeq(acc, 1, Len(acc) - 1), t, abs)
                       ELSE IF abs THEN NormParts(acc, t, abs)
                            ELSE NormParts(Append(acc, ".."), t, abs)
                  ELSE NormParts(Append(acc, h), t, abs)

NormPath(p) == Path(p.abs, NormParts(<<>>, p.parts, p.abs))

Join(a, b) == IF b.abs THEN b ELSE Path(a.abs, a.parts \o b.parts)

\* os.path.abspath: a relative path is joined to the working directory.
AbsPath(p, d) == NormPath(IF p.abs THEN p ELSE Join(Path(TRUE, d), p))

Dirname(p) ==
    Path(p.abs, IF p.parts = <<>> THEN <<>> ELSE SubSeq(p.parts, 1, Len(p.parts) - 1))

\* TEST_ASSETS_DIR as the script computes it without the abspath call.
AssetsDirNoAbs(f, d) == Join(Dirname(f), Path(FALSE, <<"test_assets">>))

\* TEST_ASSETS_DIR = join(dirname(abspath(__file__)), "test_assets")
AssetsDir(f, d) == Join(Dirname(AbsPath(f, d)), Path(FALSE, <<"test_assets">>))

\* How the interpreter may spell __file__: absolute, or relative to the
\* working directory the process was started in.
RECURSIVE CommonLen(_, _)
CommonLen(s, t) ==
    IF s = <<>> \/ t = <<>> \/ Head(s) /= Head(t) THEN 0
    ELSE 1 + CommonLen(Tail(s), Tail(t))

RelTo(target, start) ==
    LET k == CommonLen(target, start)
    IN  [j \in 1..(Len(start) - k) |-> ".."] \o SubSeq(target, k + 1, Len(target))

ScriptFile(dir) == dir \o <<"st_image.py">>

FileForms(dir, d) ==
    {Path(TRUE, ScriptFile(dir)), Path(FALSE, RelTo(ScriptFile(dir), d))}

---------------------------------------------------------------------------
(* Values.  Arrays and PIL images of the script are solid: every pixel     *)
(* holds the same channel tuple px.                                        *)

Unset == [kind |-> "unset"]

NdArray(id, shape, px) == [kind |-> "ndarray", id |-> id, shape |-> shape, px |-> px]
PilImage(id, mode, size, px) ==
    [kind |-> "PIL", id |-> id, mode |-> mode, size |-> size, px |-> px]
Str(id, text) == [kind |-> "str", id |-> id, text |-> text]
PathStr(id, p) == [kind |-> "path", id |-> id, path |-> p]

Ok(v) == [ok |-> TRUE, val |-> v]
Raise(exc) == [ok |-> FALSE, exc |-> exc]

\* np.repeat(v, n).reshape(rows, cols) with the repeat count off by one row.
RepeatReshapeShort(id, v, n, rows, cols) ==
    IF n - cols = rows * cols THEN Ok(NdArray(id, <<rows, cols>>, <<v>>))
    ELSE Raise("ValueError")

\* np.repeat(v, n).reshape(rows, cols): reshape keeps the element count.
RepeatReshape(id, v, n, rows, cols) ==
    IF n = rows * cols THEN Ok(NdArray(id, <<rows, cols>>, <<v>>))
    ELSE Raise("ValueError")

\* PIL's colour names, as far as the script uses them.
ColorRGB(name) ==
    CASE name = "red" -> <<255, 0, 0>>
      [] name = "blue" -> <<0, 0, 255>>
      [] name = "green" -> <<0, 128, 0>>

\* str.index: the 0-based position of the first occurrence.
RECURSIVE Index(_, _)
Index(s, ch) == IF Head(s) = ch THEN 0 ELSE 1 + Index(Tail(s), ch)

\* The index list with the two layouts confused: ["RGB".index(s) for s in "RGB"].
ChannelPermSame ==
    LET to == <<"R", "G", "B">>
    IN  [k \in 1..Len(to) |-> Index(<<"R", "G", "B">>, to[k])]

\* ["BGR".index(s) for s in "RGB"]
ChannelPerm ==
    LET to == <<"R", "G", "B">>
    IN  [k \in 1..Len(to) |-> Index(<<"B", "G", "R">>, to[k])]

\* a[..., perm]: fancy indexing of the last axis.
TakeLast(px, perm) == [k \in 1..Len(perm) |-> px[perm[k] + 1]]

\* np.array(pil_image): rows x columns x channels.
ArrayOf(id, p) == NdArray(id, <<p.size[2], p.size[1], Len(p.px)>>, p.px)

\* str.format(x=...) on a template that holds the field {x}.
Format(text, x) == [k \in DOMAIN text |-> IF text[k] = "{x}" THEN x ELSE text[k]]

Var(name) == [e |-> "var", name |-> name]
Lit(text) == [e |-> "str", text |-> text]
Fmt(template, x) == [e |-> "format", template |-> template, x |-> x]
NewImage(mode, w, h, color) ==
    [e |-> "new", mode |-> mode, size |-> <<w, h>>, color |-> color]

Eval(expr, g, id, f, d) ==
    CASE expr.e = "var" ->
            IF g[expr.name].kind = "unset" THEN Raise("NameError")
            ELSE Ok(g[expr.name])
      [] expr.e = "assets_dir" -> Ok(PathStr(id, AssetsDir(f, d)))
      [] expr.e = "repeat_reshape" ->
            RepeatReshape(id, expr.v, expr.n, expr.rows, expr.cols)
      [] expr.e = "zeros" ->
            Ok(NdArray(id, expr.shape, [k \in 1..expr.shape[3] |-> 0]))
      [] expr.e = "def" -> Ok([kind |-> "function", id |-> id])
      [] expr.e = "str" -> Ok(Str(id, expr.text))
      [] expr.e = "format" ->
            IF g[expr.template].kind = "unset" THEN Raise("NameError")
            ELSE Ok(Str(id, Format(g[expr.template].text, expr.x)))
      [] expr.e = "join" ->
            IF g[expr.base].kind = "unset" THEN Raise("NameError")
            ELSE Ok(PathStr(id, Join(g[expr.base].path, Path(FALSE, <<expr.leaf>>))))
      [] expr.e = "new" ->
            Ok(PilImage(id, expr.mode, expr.size, ColorRGB(expr.color)))
      [] expr.e = "permute" ->
            IF g[expr.of].kind = "unset" THEN Raise("NameError")
            ELSE Ok([ArrayOf(id, g[expr.of]) EXCEPT !.px = TakeLast(@, ChannelPerm)])
      [] expr.e = "list" ->
            Ok([kind |-> "list", id |-> id + Len(expr.items),
                items |-> [k \in DOMAIN expr.items |->
                             PilImage(id + k - 1, expr.items[k].mode, expr.items[k].size,
                                      ColorRGB(expr.items[k].color))]])

\* How many new objects evaluating the expression constructs.
NewIds(expr) ==
    CASE expr.e = "var" -> 0
      [] expr.e = "list" -> Len(expr.items) + 1
      [] OTHER -> 1

---------------------------------------------------------------------------
(* The script, statement by statement.  `line` is the statement's first    *)
(* line in st_image.py; `comment` is the trailing comment of the line.     *)

\* st.image's defaults for the arguments a call leaves out.
ImageDefaults ==
    [caption |-> None, width |-> None, output_format |-> "auto",
     channels |-> "RGB", use_column_width |-> None, comment |-> ""]

Image(line, target, arg, opts) ==
    ([line |-> line, op |-> "image", target |-> target, arg |-> arg] @@ opts)
        @@ ImageDefaults

Header(line, text) == [line |-> line, op |-> "header", text |-> text]
Assign(line, name, expr) == [line |-> line, op |-> "assign", name |-> name, expr |-> expr]
CallGif(line, name, size, frames) ==
    [line |-> line, op |-> "call_gif", name |-> name, size |-> size, frames |-> frames]

SecSetup ==
    << Assign(30, "TEST_ASSETS_DIR", [e |-> "assets_dir"]),
       Assign(34, "img",
              [e |-> "repeat_reshape", v |-> 0, n |-> 10000, rows |-> 100, cols |-> 100]),
       Assign(35, "img800",
              [e |-> "repeat_reshape", v |-> 0, n |-> 640000, rows |-> 800, cols |-> 800]) >>

\* The numpy section with transparent_img never shown: img is shown once more.
SecNumpyReused ==
    << Header(38, "Images from numpy arrays"),
       Image(40, "st", Var("img"),
             [caption |-> Some("Black Square as JPEG."), output_format |-> "JPEG",
              width |-> Some(100)]),
       Image(42, "st", Var("img"),
             [caption |-> Some("Black Square as PNG."), output_format |-> "PNG",
              width |-> Some(100)]),
       Image(44, "st", Var("img"),
             [caption |-> Some("Black Square with no output format specified."),
              width |-> Some(100)]),
       Assign(46, "transparent_img", [e |-> "zeros", shape |-> <<100, 100, 4>>]),
       Image(47, "st", Var("img"),
             [caption |-> Some("Transparent Black Square."), width |-> Some(100)]) >>

SecNumpy ==
    << Header(38, "Images from numpy arrays"),
       Image(40, "st", Var("img"),
             [caption |-> Some("Black Square as JPEG."), output_format |-> "JPEG",
              width |-> Some(100)]),
       Image(42, "st", Var("img"),
             [caption |-> Some("Black Square as PNG."), output_format |-> "PNG",
              width |-> Some(100)]),
       Image(44, "st", Var("img"),
             [caption |-> Some("Black Square with no output format specified."),
              width |-> Some(100)]),
       Assign(46, "transparent_img", [e |-> "zeros", shape |-> <<100, 100, 4>>]),
       Image(47, "st", Var("transparent_img"),
             [caption |-> Some("Transparent Black Square."), width |-> Some(100)]) >>

\* The def statement binds the name create_gif.  The argument create_gif(64)
\* of line 85 is evaluated before the call it is passed to; its value is
\* kept under the name _arg85, which the script itself never sees.
SecGif ==
    << Header(49, "GIF images"),
       Assign(52, "create_gif", [e |-> "def"]),
       CallGif(82, "gif", 64, Some(32)),
       Image(84, "st", Var("gif"),
             [caption |-> Some("Moving black circle."), width |-> Some(100)]),
       CallGif(85, "_arg85", 64, None),
       Image(85, "st", Var("_arg85"),
             [caption |-> Some("Black Circle as GIF."), width |-> Some(100)]),
       Image(86, "st", Var("gif"),
             [caption |-> Some("GIF as PNG."), output_format |-> "PNG",
              width |-> Some(100)]) >>

SecSvg ==
    << Header(88, "SVG images"),
       Image(90, "st", Lit(<<"xml", "doctype", "svg 500x100", "text">>),
             [caption |-> Some("Text SVG with meta tags.")]),
       Image(102, "st", Lit(<<"svg", "red circle">>),
             [caption |-> Some("Red Circle.")]),
       Assign(112, "SVG_RED_CIRCLE", Lit(<<"svg 100x100", "red circle">>)),
       Image(119, "st", Var("SVG_RED_CIRCLE"),
             [caption |-> Some("Red Circle with internal dimensions.")]),
       Image(120, "st", Var("SVG_RED_CIRCLE"),
             [width |-> Some(300), caption |-> Some("Red Circle with width 300.")]),
       Assign(123, "SVG_YELLOW_GREEN_RECTANGLE",
              Lit(<<"svg viewBox", "{x}", "0 100 90", "yellow rect", "green rect">>)),
       Image(130, "st", Fmt("SVG_YELLOW_GREEN_RECTANGLE", "50"),
             [width |-> Some(100), caption |-> Some("Yellow Green Rectangle with x 50.")]),
       Image(135, "st", Fmt("SVG_YELLOW_GREEN_RECTANGLE", "50"),
             [width |-> Some(300),
              caption |-> Some("Yellow Green Rectangle with x 50 and width 300.")]),
       Image(141, "st", Fmt("SVG_YELLOW_GREEN_RECTANGLE", "0"),
             [width |-> Some(100), caption |-> Some("Yellow Green Rectangle with x 0.")]),
       Image(146, "st", Fmt("SVG_YELLOW_GREEN_RECTANGLE", "0"),
             [width |-> Some(300),
              caption |-> Some("Yellow Green Rectangle with x 0 and width 300.")]),
       Image(152, "st", Fmt("SVG_YELLOW_GREEN_RECTANGLE", "100"),
             [width |-> Some(100), caption |-> Some("Yellow Green Rectangle with x 100.")]),
       Image(157, "st", Fmt("SVG_YELLOW_GREEN_RECTANGLE", "100"),
             [width |-> Some(300),
              caption |-> Some("Yellow Green Rectangle with x 100 and width 300.")]) >>

\* The file section with the image call moved above its header.
SecFileSwapped ==
    << Assign(165, "CAT_IMAGE",
              [e |-> "join", base |-> "TEST_ASSETS_DIR", leaf |-> "cat.jpg"]),
       Image(166, "st", Var("CAT_IMAGE"),
             [caption |-> Some("Image from jpg file."), width |-> Some(200)]),
       Header(163, "Image from file") >>

SecFile ==
    << Header(163, "Image from file"),
       Assign(165, "CAT_IMAGE",
              [e |-> "join", base |-> "TEST_ASSETS_DIR", leaf |-> "cat.jpg"]),
       Image(166, "st", Var("CAT_IMAGE"),
             [caption |-> Some("Image from jpg file."), width |-> Some(200)]) >>

SecChannels ==
    << Header(168, "channels parameter"),
       Assign(170, "red_image", NewImage("RGB", 100, 100, "red")),
       Assign(171, "red_bgr_img", [e |-> "permute", of |-> "red_image"]),
       Image(172, "st", Var("red_bgr_img"),
             [caption |-> Some("BGR channel (red)."), channels |-> "BGR",
              width |-> Some(100)]),
       Image(173, "st", Var("red_bgr_img"),
             [caption |-> Some("RGB channel (blue)."), channels |-> "RGB",
              width |-> Some(100)]) >>

\* The column section with the last call showing the small image.
SecColumnsSmall ==
    << Header(175, "use_column_width parameter"),
       [line |-> 177, op |-> "columns", n |-> 4,
        names |-> <<"col1", "col2", "col3", "col4">>],
       Image(178, "col1", Var("img"), [comment |-> "100 px"]),
       Image(179, "col1", Var("img"),
             [use_column_width |-> Some("auto"), comment |-> "100 px"]),
       Image(180, "col1", Var("img"),
             [use_column_width |-> Some("never"), comment |-> "100 px"]),
       Image(181, "col1", Var("img"),
             [use_column_width |-> Some("False"), comment |-> "100 px"]),
       Image(183, "col2", Var("img"),
             [use_column_width |-> Some("always"), comment |-> "column width"]),
       Image(184, "col2", Var("img"),
             [use_column_width |-> Some("True"), comment |-> "column width"]),
       Image(185, "col2", Var("img"),
             [use_column_width |-> Some("auto"), comment |-> "column width"]) >>

SecColumns ==
    << Header(175, "use_column_width parameter"),
       [line |-> 177, op |-> "columns", n |-> 4,
        names |-> <<"col1", "col2", "col3", "col4">>],
       Image(178, "col1", Var("img"), [comment |-> "100 px"]),
       Image(179, "col1", Var("img"),
             [use_column_width |-> Some("auto"), comment |-> "100 px"]),
       Image(180, "col1", Var("img"),
             [use_column_width |-> Some("never"), comment |-> "100 px"]),
       Image(181, "col1", Var("img"),
             [use_column_width |-> Some("False"), comment |-> "100 px"]),
       Image(183, "col2", Var("img"),
             [use_column_width |-> Some("always"), comment |-> "column width"]),
       Image(184, "col2", Var("img"),
             [use_column_width |-> Some("True"), comment |-> "column width"]),
       Image(185, "col2", Var("img800"),
             [use_column_width |-> Some("auto"), comment |-> "column width"]) >>

SecList ==
    << Header(187, "List of images"),
       Image(189, "st",
             [e |-> "list",
              items |-> << NewImage("RGB", 64, 64, "red"),
                           NewImage("RGB", 64, 64, "blue"),
                           NewImage("RGB", 64, 64, "green") >>],
             [caption |-> Some([i \in 1..3 |-> <<"Image list", i - 1>>])]) >>

Script ==
    SecSetup \o SecNumpy \o SecGif \o SecSvg \o SecFile \o SecChannels
        \o SecColumns \o SecList

VarNames ==
    {"TEST_ASSETS_DIR", "img", "img800", "transparent_img", "create_gif", "gif",
     "_arg85", "SVG_RED_CIRCLE", "SVG_YELLOW_GREEN_RECTANGLE", "CAT_IMAGE",
     "red_image", "red_bgr_img", "col1", "col2", "col3", "col4"}

---------------------------------------------------------------------------
(* create_gif(size, frames=1).                                             *)

DefaultFrames == 1      \* def create_gif(size, frames=1)
GifDuration == 1        \* duration=1

NoBuffer == [made |-> FALSE, frames |-> <<>>]

\* Image.new("L", (size, size), "white")
NewGray(size) == [mode |-> "L", size |-> size, bg |-> "white", shapes |-> <<>>]

\* A copy that hands back the image itself instead of a new one.
CopyAlias(h, r) == [heap |-> h, ref |-> r]

\* Image.copy(): a new image with the same content.
Copy(h, r) == [heap |-> Append(h, h[r]), ref |-> Len(h) + 1]

\* The bounding box with the circle as large as the image.
EllipseBoxFull(i, size) ==
    [x0 |-> 2 * i, y0 |-> 2 * i, x1 |-> 2 * i + 2 * size, y1 |-> 2 * i + 2 * size,
     fill |-> "black"]

\* [pos, tuple(p + circle_size for p in pos)] with pos = (i, i) and
\* circle_size = size / 2, in half pixels.
EllipseBox(i, size) ==
    [x0 |-> 2 * i, y0 |-> 2 * i, x1 |-> 2 * i + size, y1 |-> 2 * i + size,
     fill |-> "black"]

\* ImageDraw.Draw(frame).ellipse(box, "black") draws on the image itself.
DrawEllipse(h, r, box) == [h EXCEPT ![r].shapes = Append(@, box)]

\* A save that tolerates an empty frame list.
SaveGifUnchecked(h, imgs, buf) ==
    Ok([buf EXCEPT !.frames =
          [k \in DOMAIN imgs |-> [image |-> h[imgs[k]], duration |-> GifDuration]]])

\* images[0].save(data, format="GIF", save_all=True, append_images=images[1:],
\*                duration=1)
SaveGif(h, imgs, buf) ==
    IF imgs = <<>> THEN Raise("IndexError")
    ELSE LET all == <<imgs[1]>> \o SubSeq(imgs, 2, Len(imgs))
         IN  Ok([buf EXCEPT !.frames =
                   [k \in DOMAIN all |->
                      [image |-> h[all[k]], duration |-> GifDuration]]])

GifNew ==
    /\ gpc = "new"
    /\ heap' = <<NewGray(gsize)>>
    /\ im' = 1
    /\ images' = <<>>
    /\ gi' = 0
    /\ gpc' = "loop"
    /\ UNCHANGED <<envVars, scriptVars, err, gsize, gframes, data, ret>>

GifFrame ==
    /\ gpc = "loop"
    /\ gi < gframes
    /\ LET frame == Copy(heap, im)
           drawn == DrawEllipse(frame.heap, frame.ref, EllipseBox(gi, gsize))
           kept  == Copy(drawn, frame.ref)
       IN  /\ heap' = kept.heap
           /\ images' = Append(images, kept.ref)
    /\ gi' = gi + 1
    /\ UNCHANGED <<envVars, scriptVars, err, gpc, gsize, gframes, im, data, ret>>

GifBuffer ==
    /\ gpc = "loop"
    /\ gi >= gframes
    /\ data' = [made |-> TRUE, frames |-> <<>>]
    /\ gpc' = "save"
    /\ UNCHANGED <<envVars, scriptVars, err, gsize, gframes, gi, heap, im, images, ret>>

GifSave ==
    /\ gpc = "save"
    /\ LET r == SaveGif(heap, images, data)
       IN  IF r.ok
           THEN data' = r.val /\ gpc' = "return" /\ err' = err
           ELSE data' = data /\ gpc' = "raised" /\ err' = r.exc
    /\ UNCHANGED <<envVars, scriptVars, gsize, gframes, gi, heap, im, images, ret>>

\* The locals stay readable until the caller has taken the result.
GifReturn ==
    /\ gpc = "return"
    /\ ret' = [kind |-> "bytes", id |-> nextId, format |-> "GIF",
               frames |-> data.frames, loop |-> None]
    /\ nextId' = nextId + 1
    /\ gpc' = "returned"
    /\ UNCHANGED <<envVars, pc, globals, log, colw, err, gifLocals>>

---------------------------------------------------------------------------
(* The script's statements.                                                *)

Running == pc \in 1..Len(Script) /\ err = "none" /\ gpc = "idle"
Stmt == Script[pc]
Done == pc = Len(Script) + 1 /\ err = "none"

AssignStmt ==
    /\ Running
    /\ Stmt.op = "assign"
    /\ LET r == Eval(Stmt.expr, globals, nextId, file, cwd)
       IN  IF r.ok
           THEN /\ globals' = [globals EXCEPT ![Stmt.name] = r.val]
                /\ nextId' = nextId + NewIds(Stmt.expr)
                /\ pc' = pc + 1
                /\ err' = err
           ELSE /\ err' = r.exc
                /\ UNCHANGED <<globals, nextId, pc>>
    /\ UNCHANGED <<envVars, log, colw, gpc, gifLocals, ret>>

HeaderStmt ==
    /\ Running
    /\ Stmt.op = "header"
    /\ log' = Append(log, [line |-> Stmt.line, fn |-> "header", text |-> Stmt.text])
    /\ pc' = pc + 1
    /\ UNCHANGED <<envVars, globals, nextId, colw, err, gpc, gifLocals, ret>>

ImageStmt ==
    /\ Running
    /\ Stmt.op = "image"
    /\ LET r == IF Stmt.target /= "st" /\ globals[Stmt.target].kind = "unset"
                THEN Raise("NameError")
                ELSE Eval(Stmt.arg, globals, nextId, file, cwd)
       IN  IF r.ok
           THEN /\ log' = Append(log,
                    [line |-> Stmt.line, fn |-> "image", target |-> Stmt.target,
                     val |-> r.val, caption |-> Stmt.caption, width |-> Stmt.width,
                     output_format |-> Stmt.output_format, channels |-> Stmt.channels,
                     use_column_width |-> Stmt.use_column_width,
                     comment |-> Stmt.comment])
                /\ nextId' = nextId + NewIds(Stmt.arg)
                /\ pc' = pc + 1
                /\ err' = err
           ELSE /\ err' = r.exc
                /\ UNCHANGED <<log, nextId, pc>>
    /\ UNCHANGED <<envVars, globals, colw, gpc, gifLocals, ret>>

ColumnsStmt ==
    /\ Running
    /\ Stmt.op = "columns"
    /\ IF Len(Stmt.names) = Stmt.n
       THEN /\ \E c \in ColWidths : colw' = c
            /\ globals' = [v \in VarNames |->
                             IF \E k \in DOMAIN Stmt.names : Stmt.names[k] = v
                             THEN [kind |-> "column", id |-> nextId + Index(Stmt.names, v)]
                             ELSE globals[v]]
            /\ nextId' = nextId + Stmt.n
            /\ pc' = pc + 1
            /\ err' = err
       ELSE /\ err' = "ValueError"
            /\ UNCHANGED <<colw, globals, nextId, pc>>
    /\ UNCHANGED <<envVars, log, gpc, gifLocals, ret>>

CallCreateGif ==
    /\ Running
    /\ Stmt.op = "call_gif"
    /\ IF globals["create_gif"].kind = "unset"
       THEN err' = "NameError" /\ UNCHANGED <<gpc, gsize, gframes>>
       ELSE /\ gpc' = "new"
            /\ gsize' = Stmt.size
            /\ gframes' = IF Stmt.frames = None THEN DefaultFrames ELSE Stmt.frames[1]
            /\ err' = err
    /\ UNCHANGED <<envVars, scriptVars, gi, heap, im, images, data, ret>>

\* The caller takes create_gif's result; the callee's frame is gone.
BindGif ==
    /\ pc \in 1..Len(Script)
    /\ err = "none"
    /\ gpc = "returned"
    /\ Stmt.op = "call_gif"
    /\ globals' = [globals EXCEPT ![Stmt.name] = ret]
    /\ pc' = pc + 1
    /\ gpc' = "idle"
    /\ heap' = <<>>
    /\ images' = <<>>
    /\ im' = 0
    /\ gi' = 0
    /\ data' = NoBuffer
    /\ UNCHANGED <<envVars, nextId, log, colw, err, gsize, gframes, ret>>

---------------------------------------------------------------------------
(* Specifications.                                                         *)

Init ==
    /\ scriptDir \in Dirs
    /\ cwd \in Dirs
    /\ file \in FileForms(scriptDir, cwd)
    /\ pc = 1
    /\ globals = [v \in VarNames |-> Unset]
    /\ nextId = 1
    /\ log = <<>>
    /\ colw = 0
    /\ err = "none"
    /\ gpc = "idle"
    /\ gsize = 0
    /\ gframes = 0
    /\ gi = 0
    /\ heap = <<>>
    /\ im = 0
    /\ images = <<>>
    /\ data = NoBuffer
    /\ ret = Unset

Next ==
    \/ AssignStmt
    \/ HeaderStmt
    \/ ImageStmt
    \/ ColumnsStmt
    \/ CallCreateGif
    \/ BindGif
    \/ GifNew
    \/ GifFrame
    \/ GifBuffer
    \/ GifSave
    \/ GifReturn

Spec == Init /\ [][Next]_vars

\* The script runs to its end: nothing suspends a synchronous run.
FairSpec == Spec /\ WF_vars(Next)

\* create_gif on its own, for every size and frame count within the bounds.
GifSizes ==
    (0..MaxSize) \cup {Script[k].size : k \in {j \in DOMAIN Script : Script[j].op = "call_gif"}}

InitGif ==
    /\ scriptDir = <<>>
    /\ cwd = <<>>
    /\ file = Path(TRUE, ScriptFile(<<>>))
    /\ pc = 0
    /\ globals = [v \in VarNames |-> Unset]
    /\ nextId = 1
    /\ log = <<>>
    /\ colw = 0
    /\ err = "none"
    /\ gpc = "new"
    /\ gsize \in GifSizes
    /\ gframes \in 0..MaxFrames
    /\ gi = 0
    /\ heap = <<>>
    /\ im = 0
    /\ images = <<>>
    /\ data = NoBuffer
    /\ ret = Unset

NextGif ==
    \/ GifNew
    \/ GifFrame
    \/ GifBuffer
    \/ GifSave
    \/ GifReturn

SpecGif == InitGif /\ [][NextGif]_vars /\ WF_vars(NextGif)

---------------------------------------------------------------------------
(* What the rendering API does with a call's arguments (streamlit's        *)
(* st.image, which this file only calls).                                  *)

Min(a, b) == IF a <= b THEN a ELSE b

WidthBehaviour(width, ucw) ==
    IF ucw = Some("auto") \/ (ucw = None /\ width = None) THEN "auto"
    ELSE IF ucw = Some("always") \/ ucw = Some("True") THEN "column"
    ELSE IF width = None THEN "original"
    ELSE "given"

\* The width in px an image of natural width nat gets in a container c px wide.
DisplayedWidth(nat, width, ucw, c) ==
    LET wb == WidthBehaviour(width, ucw)
    IN  CASE wb = "auto" -> Min(nat, c)
          [] wb = "column" -> c
          [] wb = "original" -> nat
          [] wb = "given" -> width[1]

\* An array is rows x columns (x channels).
NaturalWidth(val) == val.shape[2]

\* The colour shown for a pixel: channels="BGR" reads the tuple backwards.
ToRGB(px, channels) ==
    IF channels = "BGR" THEN <<px[3], px[2], px[1]>> ELSE px

---------------------------------------------------------------------------
(* Helpers of the properties.                                              *)

IsImage(e) == e.fn = "image"
IsHeader(e) == e.fn = "header"
ImageCalls == {k \in DOMAIN log : IsImage(log[k])}
Headers == SelectSeq(log, IsHeader)

\* The section a log entry belongs to: the number of headers up to it.
SectionOf(k) == Cardinality({j \in 1..k : IsHeader(log[j])})
ImagesIn(s) == Cardinality({k \in ImageCalls : SectionOf(k) = s})

Bound(name) == globals[name].kind /= "unset"
\* The number of rendering calls the object bound to `name` was passed to.
Passes(name) ==
    IF Bound(name)
    THEN Cardinality({k \in ImageCalls : log[k].val.id = globals[name].id})
    ELSE 0
PassesOfId(id) == Cardinality({k \in ImageCalls : log[k].val.id = id})

RECURSIVE SumDurations(_)
SumDurations(frames) ==
    IF frames = <<>> THEN 0
    ELSE Head(frames).duration + SumDurations(Tail(frames))

---------------------------------------------------------------------------
(* C1: the rendering calls are emitted in source order: the seven headers  *)
(* in their fixed order, each section's image calls between its header and *)
(* the next (4, 3, 10, 1, 2, 7, 1 of them, 28 in all), the log only ever   *)
(* grows by one call at its end, and no call is skipped or repeated.       *)

HeaderOrder ==
    << "Images from numpy arrays", "GIF images", "SVG images", "Image from file",
       "channels parameter", "use_column_width parameter", "List of images" >>

SectionImages == <<4, 3, 10, 1, 2, 7, 1>>

C1_OrderInv ==
    LET nh == Len(Headers)
    IN  /\ nh <= Len(HeaderOrder)
        /\ \A k \in 1..nh : Headers[k].text = HeaderOrder[k]
        /\ ImagesIn(0) = 0
        /\ \A sec \in 1..nh :
              IF sec < nh \/ Done
              THEN ImagesIn(sec) = SectionImages[sec]
              ELSE ImagesIn(sec) <= SectionImages[sec]
        /\ \A j, k \in DOMAIN log : j < k => log[j].line < log[k].line
        /\ {log[k].line : k \in DOMAIN log} =
              {Script[k].line : k \in {j \in 1..(pc - 1) :
                                          Script[j].op \in {"header", "image"}}}
        /\ Done => nh = 7 /\ Cardinality(ImageCalls) = 28

C1_LogGrows == log' = log \/ (Len(log') = Len(log) + 1 /\ SubSeq(log', 1, Len(log)) = log)

C1_SourceOrder == []C1_OrderInv /\ [][C1_LogGrows]_vars

C1_Witness == Done /\ Len(Headers) = 7 /\ Cardinality(ImageCalls) = 28

---------------------------------------------------------------------------
(* C2 as stated: every constructed image value is passed to exactly one    *)
(* rendering call and never again.                                         *)

C2_PassedOnce ==
    /\ \A j, k \in ImageCalls : log[j].val.id = log[k].val.id => j = k
    /\ Done => \A name \in {"img", "img800", "transparent_img", "gif", "SVG_RED_CIRCLE",
                            "CAT_IMAGE", "red_bgr_img"} : Passes(name) = 1

(* C2 as it holds: every image value is passed only after its construction *)
(* and unchanged; by the end of the run each has been passed at least      *)
(* once; img has been passed to 9 calls, gif, SVG_RED_CIRCLE and           *)
(* red_bgr_img to 2 each, and img800, transparent_img, CAT_IMAGE, the      *)
(* image list and every value constructed inside a call to exactly one.    *)

NamedImages ==
    {"img", "img800", "transparent_img", "gif", "SVG_RED_CIRCLE", "CAT_IMAGE",
     "red_bgr_img"}

C2_PassCounts ==
    /\ \A k \in ImageCalls : log[k].val.id < nextId
    /\ \A name \in NamedImages : \A k \in ImageCalls :
          (Bound(name) /\ log[k].val.id = globals[name].id) => log[k].val = globals[name]
    /\ \A name \in NamedImages : Passes(name) > 0 => Bound(name)
    /\ \A k \in ImageCalls :
          (\A name \in NamedImages : ~Bound(name) \/ globals[name].id /= log[k].val.id)
              => PassesOfId(log[k].val.id) = 1
    /\ Done => /\ Passes("img") = 9
               /\ Passes("gif") = 2
               /\ Passes("SVG_RED_CIRCLE") = 2
               /\ Passes("red_bgr_img") = 2
               /\ Passes("img800") = 1
               /\ Passes("transparent_img") = 1
               /\ Passes("CAT_IMAGE") = 1
               /\ \E k \in ImageCalls : log[k].val.kind = "list"

C2_Witness == Done /\ Passes("img") = 9 /\ Passes("gif") = 2

---------------------------------------------------------------------------
(* C3: TEST_ASSETS_DIR and the CAT_IMAGE path depend on the script's       *)
(* directory alone: whatever the working directory and the spelling of     *)
(* __file__, they are <script directory>/test_assets and                   *)
(* <script directory>/test_assets/cat.jpg, also as passed to st.image, so  *)
(* two runs that differ only in the working directory agree on them.       *)

C3_AssetsPath ==
    LET dir == Path(TRUE, scriptDir \o <<"test_assets">>)
        cat == Path(TRUE, scriptDir \o <<"test_assets", "cat.jpg">>)
    IN  /\ Bound("TEST_ASSETS_DIR") => globals["TEST_ASSETS_DIR"].path = dir
        /\ Bound("CAT_IMAGE") => globals["CAT_IMAGE"].path = cat
        /\ \A k \in ImageCalls : log[k].val.kind = "path" => log[k].val.path = cat
        \* a second run of the same script file, started from any other directory
        /\ \A d2 \in Dirs : \A f2 \in FileForms(scriptDir, d2) :
              AssetsDir(f2, d2) = AssetsDir(file, cwd)

C3_Witness ==
    /\ cwd /= scriptDir
    /\ ~file.abs
    /\ file.parts[1] = ".."
    /\ \E k \in ImageCalls : log[k].val.kind = "path"

---------------------------------------------------------------------------
(* C4: no run reaches an error state: both reshape calls get rows * cols   *)
(* elements, create_gif never reads images[0] of an empty list, and every  *)
(* run ends after the 'List of images' call with no exception raised.      *)

C4_NoErrorInv ==
    /\ err = "none"
    /\ gpc /= "raised"
    /\ gpc = "save" => Len(images) >= 1
    /\ Bound("img") => globals["img"].shape = <<100, 100>>
    /\ Bound("img800") => globals["img800"].shape = <<800, 800>>
    /\ Done => log[Len(log)].line = 189

C4_NoError == []C4_NoErrorInv /\ <>Done

C4_Witness == Done /\ log[Len(log)].fn = "image" /\ log[Len(log)].val.kind = "list"

---------------------------------------------------------------------------
(* C5: in a column of width c with 100 < c < 800, the 100 px image with    *)
(* use_column_width unset, "auto", "never" or False is shown 100 px wide,  *)
(* with "always" or True c wide, and the 800 px image with "auto" c wide;  *)
(* each call is shown at the width its comment in the fixture states.      *)

C5_ColumnWidth ==
    \A k \in ImageCalls :
        log[k].target /= "st" =>
            LET e == log[k]
                nat == NaturalWidth(e.val)
                w == DisplayedWidth(nat, e.width, e.use_column_width, colw)
            IN  (100 < colw /\ colw < 800) =>
                /\ (nat = 100 /\ e.use_column_width \in
                        {None, Some("auto"), Some("never"), Some("False")}) => w = 100
                /\ (nat = 100 /\ e.use_column_width \in {Some("always"), Some("True")})
                        => w = colw
                /\ (nat = 800 /\ e.use_column_width = Some("auto")) => w = colw
                /\ e.comment \in {"100 px", "column width"}
                /\ w = (IF e.comment = "100 px" THEN 100 ELSE colw)

C5_Witness ==
    /\ Done
    /\ 100 < colw /\ colw < 800
    /\ \E k \in ImageCalls :
          /\ log[k].target = "col2"
          /\ NaturalWidth(log[k].val) = 800
          /\ log[k].use_column_width = Some("auto")
    /\ \E k \in ImageCalls :
          log[k].target = "col1" /\ log[k].use_column_width = Some("never")

---------------------------------------------------------------------------
(* C6: the index list is [2, 1, 0]; red_bgr_img holds (0, 0, 255) in every *)
(* pixel; shown with channels="BGR" it is red (255, 0, 0), with "RGB" blue *)
(* (0, 0, 255); permuting it once more gives the red image back.           *)

C6_Channels ==
    /\ Bound("red_bgr_img") =>
          /\ ChannelPerm = <<2, 1, 0>>
          /\ globals["red_image"].px = <<255, 0, 0>>
          /\ globals["red_bgr_img"].px = <<0, 0, 255>>
          /\ globals["red_bgr_img"].shape = <<100, 100, 3>>
          /\ TakeLast(globals["red_bgr_img"].px, ChannelPerm) = globals["red_image"].px
    /\ \A k \in ImageCalls :
          (Bound("red_bgr_img") /\ log[k].val.id = globals["red_bgr_img"].id) =>
              /\ log[k].channels \in {"BGR", "RGB"}
              /\ log[k].channels = "BGR" => ToRGB(log[k].val.px, "BGR") = <<255, 0, 0>>
              /\ log[k].channels = "RGB" => ToRGB(log[k].val.px, "RGB") = <<0, 0, 255>>

C6_Witness ==
    /\ Passes("red_bgr_img") = 2
    /\ \E k \in ImageCalls : log[k].line = 172 /\ log[k].channels = "BGR"
    /\ \E k \in ImageCalls : log[k].line = 173 /\ log[k].channels = "RGB"

---------------------------------------------------------------------------
(* C7: the GIF create_gif returns carries no loop count and its per-frame  *)
(* durations add up to frames * 100 ms.                                    *)

C7_GifDuration ==
    gpc = "returned" =>
        /\ ret.loop = None
        /\ SumDurations(ret.frames) = gframes * 100

---------------------------------------------------------------------------
(* C8: for frames >= 1 create_gif returns, and what it returns holds       *)
(* exactly `frames` frames, frame i (from 0) being the white size x size   *)
(* background with one black circle in the box (i, i) to                   *)
(* (i + size/2, i + size/2); drawing never alters the background nor an    *)
(* earlier frame.  Coordinates below are in half pixels.                   *)

C8_FrameIs(img, i) ==
    /\ img.mode = "L" /\ img.size = gsize /\ img.bg = "white"
    /\ Len(img.shapes) = 1
    /\ img.shapes[1].fill = "black"
    /\ img.shapes[1].x0 = 2 * i /\ img.shapes[1].y0 = 2 * i
    /\ img.shapes[1].x1 = 2 * i + gsize /\ img.shapes[1].y1 = 2 * i + gsize

C8_FramesInv ==
    /\ gpc \notin {"idle", "new"} =>
          /\ heap[im] = [mode |-> "L", size |-> gsize, bg |-> "white", shapes |-> <<>>]
          /\ Len(images) = gi
          /\ \A k \in DOMAIN images : C8_FrameIs(heap[images[k]], k - 1)
    /\ gpc = "returned" =>
          /\ Len(ret.frames) = gframes
          /\ \A k \in DOMAIN ret.frames : C8_FrameIs(ret.frames[k].image, k - 1)

C8_Frames == []C8_FramesInv /\ ((gframes >= 1) ~> (gpc = "returned"))

C8_Witness ==
    gpc = "returned" /\ gframes = 3 /\ gsize = 5 /\ ret.frames[3].image.shapes[1].x0 = 4

---------------------------------------------------------------------------
(* C9: once the frame loop is over, every frame's bounding box lies inside *)
(* the image exactly when frames - 1 + size/2 <= size - 1; this holds for  *)
(* the script's calls create_gif(64, frames=32) and create_gif(64), where  *)
(* the largest coordinate reached is 63.  Coordinates are in half pixels.  *)

BoxInside(img) ==
    \A k \in DOMAIN img.shapes :
        LET b == img.shapes[k]
        IN  /\ 0 <= b.x0 /\ 0 <= b.y0
            /\ b.x1 <= 2 * (img.size - 1) /\ b.y1 <= 2 * (img.size - 1)

AllInside == \A k \in DOMAIN images : BoxInside(heap[images[k]])

C9_BoxInside ==
    /\ gpc \in {"save", "return", "returned", "raised"} =>
          (AllInside <=> 2 * (gframes - 1) + gsize <= 2 * (gsize - 1))
    /\ \A k \in DOMAIN Script :
          Script[k].op = "call_gif" =>
              LET n == IF Script[k].frames = None THEN DefaultFrames
                       ELSE Script[k].frames[1]
              IN  /\ 2 * (n - 1) + Script[k].size <= 2 * (Script[k].size - 1)
                  /\ (gpc = "returned" /\ gsize = Script[k].size /\ gframes = n)
                        => /\ AllInside
                           /\ \A j \in DOMAIN images :
                                 heap[images[j]].shapes[1].x1 <= 2 * 63

C9_Witness ==
    /\ gpc = "returned" /\ gsize = 64 /\ gframes = 32
    /\ heap[images[32]].shapes[1].x1 = 2 * 63

---------------------------------------------------------------------------
(* C10: with frames = 0 the loop body never runs, reading images[0] raises *)
(* IndexError while the buffer is still empty, and nothing is returned; a  *)
(* value is returned only when frames >= 1.                                *)

C10_ZeroFrames ==
    /\ gframes = 0 =>
          /\ gi = 0 /\ images = <<>>
          /\ data.frames = <<>>
          /\ ret.kind = "unset"
          /\ gpc \in {"new", "loop", "save", "raised"}
          /\ gpc = "raised" => err = "IndexError" /\ data.made
    /\ gpc = "returned" => gframes >= 1 /\ ret.kind = "bytes" /\ Len(ret.frames) >= 1
    /\ err /= "none" => gframes = 0

C10_Witness == gframes = 0 /\ gpc = "raised" /\ err = "IndexError" /\ data.made

====
